---- MODULE Spec2Model ----
(***************************************************************************)
(* Model of Dashboard.py: the DashboardPOO console menu.                   *)
(*                                                                         *)
(* The controller is the nest of three loops mostrar_menu_principal ->     *)
(* mostrar_submenu -> mostrar_menu_scripts.  Each loop iteration is split  *)
(* at the points where the process blocks or touches the disk: the menu    *)
(* rendering (with the os.scandir listing) and each input() call.  The     *)
(* filesystem and the spawned child processes belong to the environment    *)
(* and change between the steps of the controller.                         *)
(*                                                                         *)
(* Text is modelled as sequences: an input line is a sequence of           *)
(* one-character strings, a file is a sequence of byte values, a decoded   *)
(* text is a sequence of code points, a path is a sequence of components.  *)
(***************************************************************************)
EXTENDS Integers, Sequences, FiniteSets, TLC

(***************************************************************************)
(* Bounds of the model.                                                    *)
(***************************************************************************)
\* Longest log kept: a step that would make the log longer is not taken.
MaxLog == 2
\* Number of changes other processes make to the directory tree.
MaxCambios == 1

(***************************************************************************)
(* State.                                                                  *)
(***************************************************************************)
VARIABLES
    pc,           \* position of the controller
    excepcion,    \* the exception that ended the process, "" if none
    ruta_unidad,  \* argument of the active mostrar_submenu
    subcarpetas,  \* its local list
    ruta_tema,    \* argument of the active mostrar_menu_scripts
    scripts,      \* its local list
    ruta_script,  \* its local path of the script chosen last
    log,          \* records of the log file written by this session
    salida,       \* what the last step of the controller printed
    llamadas,     \* calls of mostrar_codigo/ejecutar_codigo in the last step
    hijos,        \* the child processes spawned
    os_name,      \* os.name, the platform of the session
    fs,           \* the directory tree under ruta_base
    cambios,      \* changes made to the tree by other processes
    stdin         \* standard input: a keyboard, or a file and the lines read

vars == <<pc, excepcion, ruta_unidad, subcarpetas, ruta_tema, scripts,
          ruta_script, log, salida, llamadas, hijos, os_name, fs, cambios,
          stdin>>

(***************************************************************************)
(* __init__: the base path and the catalog.                                *)
(***************************************************************************)
ruta_base == <<"base">>

\* The keys are lines of characters, as input() returns them.
unidades ==
    (<<"1">> :> "Unidad 1 - Fundamentos POO") @@
    (<<"2">> :> "Unidad 2 - Herencia y Polimorfismo") @@
    (<<"3">> :> "Unidad 3 - Patrones de Diseño") @@
    (<<"4">> :> "Unidad 4 - Proyectos Prácticos")

\* os.path.join(a, b) for a relative component b.
join(a, b) == Append(a, b)

(***************************************************************************)
(* str.strip, str.upper, str.endswith and int() on lines of characters.    *)
(***************************************************************************)
Espacios == {" ", "\t"}

RECURSIVE lstrip(_)
lstrip(s) ==
    IF s = <<>> THEN s
    ELSE IF Head(s) \in Espacios THEN lstrip(Tail(s)) ELSE s

RECURSIVE rstrip(_)
rstrip(s) ==
    IF s = <<>> THEN s
    ELSE IF s[Len(s)] \in Espacios THEN rstrip(SubSeq(s, 1, Len(s) - 1)) ELSE s

\* A line that is used as typed, without .strip().
sin_strip(s) == s

strip(s) == rstrip(lstrip(s))

Mayuscula(c) ==
    CASE c = "s" -> "S"
      [] c = "y" -> "Y"
      [] c = "n" -> "N"
      [] c = "x" -> "X"
      [] OTHER -> c

\* A comparison that forgets .upper().
sin_upper(s) == s

upper(s) == [i \in 1..Len(s) |-> Mayuscula(s[i])]

endswith(s, suf) ==
    /\ Len(s) >= Len(suf)
    /\ SubSeq(s, Len(s) - Len(suf) + 1, Len(s)) = suf

Digitos == {"0", "1", "2", "3", "4", "5", "6", "7", "8", "9"}

ValorDigito(c) ==
    CASE c = "0" -> 0 [] c = "1" -> 1 [] c = "2" -> 2 [] c = "3" -> 3
      [] c = "4" -> 4 [] c = "5" -> 5 [] c = "6" -> 6 [] c = "7" -> 7
      [] c = "8" -> 8 [] c = "9" -> 9

RECURSIVE ValorDecimal(_, _)
ValorDecimal(s, acc) ==
    IF s = <<>> THEN acc
    ELSE IF Head(s) = "_" THEN ValorDecimal(Tail(s), acc)
    ELSE ValorDecimal(Tail(s), 10 * acc + ValorDigito(Head(s)))

\* int(s): surrounding whitespace, an optional sign, then decimal digits
\* that single underscores may separate.  Anything else is a ValueError.
int(s) ==
    LET t == strip(s)
        signo == t # <<>> /\ Head(t) \in {"+", "-"}
        cuerpo == IF signo THEN Tail(t) ELSE t
        valido ==
            /\ cuerpo # <<>>
            /\ \A i \in 1..Len(cuerpo) : cuerpo[i] \in Digitos \cup {"_"}
            /\ cuerpo[1] # "_"
            /\ cuerpo[Len(cuerpo)] # "_"
            /\ \A i \in 1..(Len(cuerpo) - 1) :
                   ~(cuerpo[i] = "_" /\ cuerpo[i + 1] = "_")
        magnitud == ValorDecimal(cuerpo, 0)
    IN  IF valido
        THEN [error |-> "",
              valor |-> IF signo /\ Head(t) = "-" THEN 0 - magnitud
                        ELSE magnitud]
        ELSE [error |-> "ValueError", valor |-> 0]

(***************************************************************************)
(* open(path, 'r', encoding='utf-8').read(): UTF-8 decoding of the bytes   *)
(* (one-byte and two-byte forms), then the universal-newline translation   *)
(* of text mode (newline=None).                                            *)
(***************************************************************************)
RECURSIVE utf8_decode(_)
utf8_decode(b) ==
    IF b = <<>> THEN [error |-> "", texto |-> <<>>]
    ELSE IF Head(b) < 128
    THEN LET r == utf8_decode(Tail(b))
         IN  [error |-> r.error, texto |-> <<Head(b)>> \o r.texto]
    ELSE IF /\ Head(b) >= 194 /\ Head(b) <= 223
            /\ Len(b) >= 2 /\ b[2] >= 128 /\ b[2] <= 191
    THEN LET r == utf8_decode(Tail(Tail(b)))
         IN  [error |-> r.error,
              texto |-> <<(Head(b) - 192) * 64 + (b[2] - 128)>> \o r.texto]
    ELSE [error |-> "UnicodeDecodeError", texto |-> <<>>]

CR == 13
LF == 10

\* A file opened with newline='': the line endings are left as they are.
sin_traducir(t) == t

RECURSIVE traducir_saltos(_)
traducir_saltos(t) ==
    IF t = <<>> THEN <<>>
    ELSE IF Head(t) = CR
    THEN IF Len(t) >= 2 /\ t[2] = LF
         THEN <<LF>> \o traducir_saltos(Tail(Tail(t)))
         ELSE <<LF>> \o traducir_saltos(Tail(t))
    ELSE <<Head(t)>> \o traducir_saltos(Tail(t))

(***************************************************************************)
(* The directory tree.  A node is absent, a directory or a regular file;   *)
(* `legible' is the read permission of the node.                           *)
(***************************************************************************)
Ausente == [tipo |-> "ausente", legible |-> FALSE, bytes |-> <<>>]
Dir == [tipo |-> "dir", legible |-> TRUE, bytes |-> <<>>]
DirCerrado == [tipo |-> "dir", legible |-> FALSE, bytes |-> <<>>]
Archivo(b) == [tipo |-> "archivo", legible |-> TRUE, bytes |-> b]
ArchivoCerrado(b) == [tipo |-> "archivo", legible |-> FALSE, bytes |-> b]

\* File contents of the model: empty, a line of the two-byte form of
\* U+00F1 ending in CR LF, and a byte that is not UTF-8.
Contenidos == { <<>>, <<195, 177, 13, 10>>, <<255>> }

\* Names of the model.  Topic names are atoms; the names inside a topic
\* are character sequences because obtener_scripts looks at their suffix.
Temas == {"Clases", "Herencia"}
NombreA == <<"a", ".", "p", "y">>
NombreB == <<"b", ".", "p", "y">>
NombreD == <<"d", ".", "p", "y">>
NombreN == <<"n", ".", "p", "y", "c">>
Entradas == {NombreA, NombreB, NombreD, NombreN}

\* The name of the unit taken as the path of the unit.
RutaUnidadSinBase(k) == <<unidades[k]>>

\* Line 118: os.path.join(self.ruta_base, self.unidades[eleccion]).
RutaUnidad(k) == join(ruta_base, unidades[k])
RutasUnidad == {RutaUnidad(k) : k \in DOMAIN unidades}
RutasTema == {join(RutaUnidad(<<"1">>), t) : t \in Temas}
RutaClases == join(RutaUnidad(<<"1">>), "Clases")
RutasEntrada == {join(RutaClases, n) : n \in Entradas}
Rutas == RutasUnidad \cup RutasTema \cup RutasEntrada

\* The paths that other processes create or delete during a session.
RutasMudables ==
    {RutaUnidad(<<"1">>), RutaClases, join(RutaClases, NombreA),
     join(RutaClases, NombreB)}

\* What is created at p: a directory for a unit or a topic, a file inside
\* a topic.
NodoNuevo(p) == IF p \in RutasEntrada THEN Archivo(<<112>>) ELSE Dir

EsPrefijo(p, q) == Len(p) <= Len(q) /\ SubSeq(q, 1, Len(p)) = p

Nodo(arbol, p) == IF p \in DOMAIN arbol THEN arbol[p] ELSE Ausente

\* The names of the entries of directory p.
Hijos(arbol, p) ==
    {q[Len(q)] : q \in {r \in DOMAIN arbol :
                           /\ Len(r) = Len(p) + 1
                           /\ EsPrefijo(p, r)
                           /\ arbol[r].tipo # "ausente"}}

\* The orders in which a directory may enumerate the names of S.
Ordenes(S) ==
    {f \in [1..Cardinality(S) -> S] :
        \A i, j \in 1..Cardinality(S) : f[i] = f[j] => i = j}

\* os.scandir(ruta): the error raised, or the names of the entries.  The
\* enumeration order is the directory's, which the caller cannot choose.
scandir(arbol, ruta) ==
    LET n == Nodo(arbol, ruta)
    IN  IF n.tipo = "ausente"
        THEN [error |-> "FileNotFoundError", nombres |-> {}]
        ELSE IF n.tipo = "archivo"
        THEN [error |-> "NotADirectoryError", nombres |-> {}]
        ELSE IF ~n.legible
        THEN [error |-> "PermissionError", nombres |-> {}]
        ELSE [error |-> "", nombres |-> Hijos(arbol, ruta)]

\* DirEntry.is_dir() and DirEntry.is_file() of entry f of directory ruta.
is_dir(arbol, ruta, f) == Nodo(arbol, join(ruta, f)).tipo = "dir"
is_file(arbol, ruta, f) == Nodo(arbol, join(ruta, f)).tipo = "archivo"

SufijoPy == <<".", "p", "y">>

\* obtener_subcarpetas(ruta): the error that propagates, or the possible
\* lists.
obtener_subcarpetas(arbol, ruta) ==
    LET d == scandir(arbol, ruta)
    IN  [error |-> d.error,
         listas |-> IF d.error # "" THEN {}
                    ELSE Ordenes({f \in d.nombres : is_dir(arbol, ruta, f)})]

\* A listing by suffix alone, whatever the kind of the entry.
obtener_scripts_sin_is_file(arbol, ruta) ==
    LET d == scandir(arbol, ruta)
    IN  [error |-> d.error,
         listas |-> IF d.error # "" THEN {}
                    ELSE Ordenes({f \in d.nombres : endswith(f, SufijoPy)})]

\* obtener_scripts(ruta): the error that propagates, or the possible lists.
obtener_scripts(arbol, ruta) ==
    LET d == scandir(arbol, ruta)
    IN  [error |-> d.error,
         listas |-> IF d.error # "" THEN {}
                    ELSE Ordenes({f \in d.nombres :
                                     /\ is_file(arbol, ruta, f)
                                     /\ endswith(f, SufijoPy)})]

\* open(...) and archivo.read() of mostrar_codigo: the exception raised,
\* or the text read.
leer(arbol, ruta) ==
    LET n == Nodo(arbol, ruta)
    IN  IF n.tipo = "ausente"
        THEN [error |-> "FileNotFoundError", texto |-> <<>>]
        ELSE IF n.tipo = "dir"
        THEN [error |-> "IsADirectoryError", texto |-> <<>>]
        ELSE IF ~n.legible
        THEN [error |-> "PermissionError", texto |-> <<>>]
        ELSE LET d == utf8_decode(n.bytes)
             IN  IF d.error # "" THEN d
                 ELSE [error |-> "", texto |-> traducir_saltos(d.texto)]

(***************************************************************************)
(* Log records and the two operations on a script.                         *)
(***************************************************************************)
Registro(nivel, mensaje, dato) ==
    [nivel |-> nivel, mensaje |-> mensaje, dato |-> dato]

\* The value None, and a returned string.
None == [none |-> TRUE, texto |-> <<>>]
Str(t) == [none |-> FALSE, texto |-> t]

\* bool(v) of an Optional[str]
Verdadero(v) == ~v.none /\ Len(v.texto) > 0

\* A viewer that logs the visit before it opens the file.
mostrar_codigo_registra_antes(arbol, ruta) ==
    LET r == leer(arbol, ruta)
        visita == Registro("INFO", "Archivo visualizado", ruta)
    IN  IF r.error = ""
        THEN [retorno |-> Str(r.texto),
              salida |-> <<"banner", "codigo">>,
              registros |-> <<visita>>]
        ELSE [retorno |-> None,
              salida |-> <<"aviso: Error">>,
              registros |-> <<visita,
                              Registro("ERROR", "Error al leer archivo",
                                       ruta)>>]

\* mostrar_codigo(ruta_script): the returned value, the console output
\* and the log records written.
mostrar_codigo(arbol, ruta) ==
    LET r == leer(arbol, ruta)
    IN  IF r.error = ""
        THEN [retorno |-> Str(r.texto),
              salida |-> <<"banner", "codigo">>,
              registros |-> <<Registro("INFO", "Archivo visualizado",
                                       ruta)>>]
        ELSE [retorno |-> None,
              salida |-> <<"aviso: Error">>,
              registros |-> <<Registro("ERROR", "Error al leer archivo",
                                       ruta)>>]

\* Lines 68-71: the command line of the terminal window.
Comando(plataforma, ruta) ==
    IF plataforma = "nt"
    THEN <<"cmd", "/k", "python", ruta>>
    ELSE <<"xterm", "-hold", "-e", "python3", ruta>>

\* A launcher that waits for the child (subprocess.run): the child has
\* exited when the call returns.
ejecutar_codigo_espera(plataforma, ruta, exito) ==
    IF exito
    THEN [nuevos |-> <<[comando |-> Comando(plataforma, ruta),
                        estado |-> "terminado"]>>,
          salida |-> <<>>,
          registros |-> <<Registro("INFO", "Script ejecutado", ruta)>>]
    ELSE [nuevos |-> <<>>,
          salida |-> <<"aviso: Error al ejecutar">>,
          registros |-> <<Registro("ERROR", "Error al ejecutar",
                                   ruta)>>]

\* A launcher that swallows the failure of the spawn (except: pass).
ejecutar_codigo_silencioso(plataforma, ruta, exito) ==
    IF exito
    THEN [nuevos |-> <<[comando |-> Comando(plataforma, ruta),
                        estado |-> "corriendo"]>>,
          salida |-> <<>>,
          registros |-> <<Registro("INFO", "Script ejecutado", ruta)>>]
    ELSE [nuevos |-> <<>>, salida |-> <<>>, registros |-> <<>>]

\* ejecutar_codigo(ruta_script): subprocess.Popen either raises (exito is
\* FALSE) or starts a child and returns without waiting for it.
ejecutar_codigo(plataforma, ruta, exito) ==
    IF exito
    THEN [nuevos |-> <<[comando |-> Comando(plataforma, ruta),
                        estado |-> "corriendo"]>>,
          salida |-> <<>>,
          registros |-> <<Registro("INFO", "Script ejecutado", ruta)>>]
    ELSE [nuevos |-> <<>>,
          salida |-> <<"aviso: Error al ejecutar">>,
          registros |-> <<Registro("ERROR", "Error al ejecutar",
                                   ruta)>>]

\* Values of the locals of a function that is not active or that has not
\* assigned them yet.
SinRuta == <<>>
SinSubcarpetas == <<"<sin asignar>">>
SinScripts == << <<"<sin asignar>">> >>

\* The lines typed at the prompts: at the main menu, at the two numbered
\* menus, at the question whether to run the script, at the pause.
LineasPrincipal ==
    { <<"0">>, <<"1">>, <<"2">>, <<"3">>, <<"4">>, <<" ", "1", "\t">>,
      <<"0", "0">>, <<"s">> }
LineasMenu ==
    { <<"0">>, <<" ", "0">>, <<"1">>, <<"2">>, <<"3">>, <<" ", "1", "\t">>,
      <<"0", "0">>, <<"-", "1">>, <<"s">>, <<>> }
LineasRespuesta ==
    { <<"S">>, <<"s">>, <<"Y">>, <<"y">>, <<"N">>, <<" ", "S">>, <<>> }
LineasPausa == { <<>>, <<"0">> }
Lineas == LineasPrincipal \cup LineasMenu \cup LineasRespuesta

\* The directory trees at the start of a session: unit 3 is missing, unit 4
\* and the topic Herencia are unreadable, d.py is a directory, and a.py is
\* a file of any content of the model, or an unreadable file.
ArbolInicial(a) ==
    [p \in Rutas |->
        CASE p = RutaUnidad(<<"1">>) -> Dir
          [] p = RutaUnidad(<<"2">>) -> Dir
          [] p = RutaUnidad(<<"3">>) -> Ausente
          [] p = RutaUnidad(<<"4">>) -> DirCerrado
          [] p = RutaClases -> Dir
          [] p = join(RutaUnidad(<<"1">>), "Herencia") -> DirCerrado
          [] p = join(RutaClases, NombreA) -> a
          [] p = join(RutaClases, NombreB) -> Ausente
          [] p = join(RutaClases, NombreD) -> Dir
          [] p = join(RutaClases, NombreN) -> Archivo(<<112>>)]

ArbolesIniciales ==
    {ArbolInicial(a) :
        a \in {Archivo(c) : c \in Contenidos} \cup {ArchivoCerrado(<<112>>)}}

\* Standard input of a session run at a terminal: input() returns what the
\* user types, the lines are not known in advance.
Teclado == [tty |-> TRUE, guion |-> <<>>, leidas |-> 0]

Init ==
    /\ pc = "principal_menu"
    /\ excepcion = ""
    /\ ruta_unidad = SinRuta
    /\ subcarpetas = SinSubcarpetas
    /\ ruta_tema = SinRuta
    /\ scripts = SinScripts
    /\ ruta_script = SinRuta
    /\ log = <<>>
    /\ salida = <<>>
    /\ llamadas = <<>>
    /\ hijos = <<>>
    /\ os_name \in {"nt", "posix"}
    /\ fs \in ArbolesIniciales
    /\ cambios = 0
    /\ stdin = Teclado

entorno == <<hijos, os_name, fs, cambios>>
marco_submenu == <<ruta_unidad, subcarpetas>>
marco_scripts == <<ruta_tema, scripts, ruta_script>>

\* A range test without its lower bound.
EnRangoSinMinimo(idx, lista) == idx < Len(lista)

\* The test `0 <= idx < len(lista)' of lines 146 and 176.
EnRango(idx, lista) == 0 <= idx /\ idx < Len(lista)

\* An index that is used as if it were still the number typed.
elemento_desplazado(lista, idx) ==
    LET i == idx + 2
    IN  IF i \in DOMAIN lista
        THEN [error |-> "", valor |-> lista[i]]
        ELSE [error |-> "IndexError", valor |-> lista]

\* lista[idx]: a negative index counts from the end of the list, and an
\* index outside the list raises IndexError.
elemento(lista, idx) ==
    LET i == IF idx >= 0 THEN idx + 1 ELSE Len(lista) + idx + 1
    IN  IF i \in DOMAIN lista
        THEN [error |-> "", valor |-> lista[i]]
        ELSE [error |-> "IndexError", valor |-> lista]

\* A question that is asked whether or not the script could be shown.
despues_de_mostrar_siempre_pregunta(v) == "confirmar"

\* A script that is shown and never offered to be run.
despues_de_mostrar_sin_pregunta(v) == "continuar"

\* A pause that is skipped when the script could not be shown.
despues_de_mostrar_sin_pausa(v) ==
    IF Verdadero(v) THEN "confirmar" ELSE "scripts_listar"

\* Lines 178-181: where the controller blocks after mostrar_codigo returned
\* v; `if v:' is the truth value of an Optional[str].
despues_de_mostrar(v) == IF Verdadero(v) THEN "confirmar" ELSE "continuar"

\* Line 179: the test of the answer.
afirmativa(linea) == upper(linea) = <<"S">>

\* An exception nobody catches ends the process with a traceback.
Abortar(e) ==
    /\ pc' = "abortado"
    /\ excepcion' = e
    /\ salida' = <<"Traceback">>

(***************************************************************************)
(* mostrar_menu_principal                                                  *)
(***************************************************************************)
\* Lines 104-111: print the menu and call input().
MenuPrincipal ==
    /\ pc = "principal_menu"
    /\ pc' = "principal_input"
    /\ salida' = <<"menu principal", "pregunta: opcion">>
    /\ llamadas' = <<>>
    /\ UNCHANGED <<excepcion, marco_submenu, marco_scripts, log, entorno>>

\* An invalid option that is reported on the console only.
opcion_invalida_sin_registro(eleccion) ==
    [salida |-> <<"aviso: Opcion no valida">>, registros |-> <<>>]

\* Lines 119-121: the warning printed and the record logged for a line that
\* is neither "0" nor a key of unidades.
opcion_invalida(eleccion) ==
    [salida |-> <<"aviso: Opcion no valida">>,
     registros |-> <<Registro("WARNING", "Opcion invalida seleccionada",
                              eleccion)>>]

\* Lines 111-121: the line read at the main menu.
EleccionPrincipal(linea) ==
    /\ pc = "principal_input"
    /\ llamadas' = <<>>
    /\ LET eleccion == strip(linea)
       IN  IF eleccion = <<"0">>
           THEN /\ salida' = <<"despedida">>
                /\ log' = Append(log, Registro("INFO", "Sesion finalizada",
                                               <<>>))
                /\ pc' = "fin"
                /\ UNCHANGED marco_submenu
           ELSE IF eleccion \in DOMAIN unidades
           THEN /\ ruta_unidad' = RutaUnidad(eleccion)
                /\ subcarpetas' = SinSubcarpetas
                /\ pc' = "submenu_listar"
                /\ salida' = <<>>
                /\ log' = log
           ELSE /\ salida' = opcion_invalida(eleccion).salida
                /\ log' = log \o opcion_invalida(eleccion).registros
                /\ pc' = "principal_menu"
                /\ UNCHANGED marco_submenu
    /\ Len(log') <= MaxLog
    /\ UNCHANGED <<excepcion, marco_scripts, entorno>>

(***************************************************************************)
(* mostrar_submenu                                                         *)
(***************************************************************************)
\* Lines 131-140: list the unit, print the menu and call input().
MenuSubmenu ==
    /\ pc = "submenu_listar"
    /\ llamadas' = <<>>
    /\ LET r == obtener_subcarpetas(fs, ruta_unidad)
       IN  IF r.error # ""
           THEN /\ Abortar(r.error)
                /\ UNCHANGED subcarpetas
           ELSE /\ subcarpetas' \in r.listas
                /\ pc' = "submenu_input"
                /\ salida' = <<"menu temas", "pregunta: tema">>
                /\ UNCHANGED excepcion
    /\ UNCHANGED <<ruta_unidad, marco_scripts, log, entorno>>

\* Lines 140-151: the line read at the menu of topics.
EleccionSubmenu(linea) ==
    /\ pc = "submenu_input"
    /\ llamadas' = <<>>
    /\ LET eleccion == strip(linea)
           n == int(eleccion)
           idx == n.valor - 1
       IN  IF eleccion = <<"0">>
           THEN /\ pc' = "principal_menu"
                /\ ruta_unidad' = SinRuta
                /\ subcarpetas' = SinSubcarpetas
                /\ salida' = <<>>
                /\ UNCHANGED <<excepcion, marco_scripts>>
           ELSE IF n.error # ""
           THEN /\ salida' = <<"aviso: ingrese un numero valido">>
                /\ pc' = "submenu_listar"
                /\ UNCHANGED <<excepcion, marco_submenu, marco_scripts>>
           ELSE IF EnRango(idx, subcarpetas)
           THEN LET e == elemento(subcarpetas, idx)
                IN  IF e.error # ""
                    THEN /\ Abortar(e.error)
                         /\ UNCHANGED <<marco_submenu, marco_scripts>>
                    ELSE /\ ruta_tema' = join(ruta_unidad, e.valor)
                         /\ scripts' = SinScripts
                         /\ ruta_script' = SinRuta
                         /\ pc' = "scripts_listar"
                         /\ salida' = <<>>
                         /\ UNCHANGED <<excepcion, marco_submenu>>
           ELSE /\ salida' = <<"aviso: Tema no valido">>
                /\ pc' = "submenu_listar"
                /\ UNCHANGED <<excepcion, marco_submenu, marco_scripts>>
    /\ UNCHANGED <<log, entorno>>

(***************************************************************************)
(* mostrar_menu_scripts                                                    *)
(***************************************************************************)
\* Lines 161-170: list the topic, print the menu and call input().
MenuScripts ==
    /\ pc = "scripts_listar"
    /\ llamadas' = <<>>
    /\ LET r == obtener_scripts(fs, ruta_tema)
       IN  IF r.error # ""
           THEN /\ Abortar(r.error)
                /\ UNCHANGED scripts
           ELSE /\ scripts' \in r.listas
                /\ pc' = "scripts_input"
                /\ salida' = <<"menu scripts", "pregunta: script">>
                /\ UNCHANGED excepcion
    /\ UNCHANGED <<marco_submenu, ruta_tema, ruta_script, log, entorno>>

Llamada(fn, ruta, retorno) == [fn |-> fn, ruta |-> ruta, retorno |-> retorno]

\* A way back from the menu of scripts that skips the menu of topics.
retorno_de_scripts_a_principal == "principal_menu"

\* Lines 172-173 and 147: `break' ends mostrar_menu_scripts, and the call of
\* line 147 returns into the loop of the mostrar_submenu that made it.
retorno_de_scripts == "submenu_listar"

\* Lines 170-179 and 181-185: the line read at the menu of scripts.  A
\* script in range is shown; then the controller asks whether to run it
\* (line 179) or goes to the final input() (line 181).
EleccionScripts(linea) ==
    /\ pc = "scripts_input"
    /\ LET eleccion == strip(linea)
           n == int(eleccion)
           idx == n.valor - 1
       IN  IF eleccion = <<"0">>
           THEN /\ pc' = retorno_de_scripts
                /\ ruta_tema' = SinRuta
                /\ scripts' = SinScripts
                /\ ruta_script' = SinRuta
                /\ salida' = <<>>
                /\ llamadas' = <<>>
                /\ log' = log
                /\ UNCHANGED excepcion
           ELSE IF n.error # ""
           THEN /\ salida' = <<"aviso: ingrese un numero valido">>
                /\ pc' = "scripts_listar"
                /\ llamadas' = <<>>
                /\ log' = log
                /\ UNCHANGED <<excepcion, marco_scripts>>
           ELSE IF EnRango(idx, scripts)
           THEN LET e == elemento(scripts, idx)
                IN  IF e.error # ""
                    THEN /\ Abortar(e.error)
                         /\ llamadas' = <<>>
                         /\ log' = log
                         /\ UNCHANGED marco_scripts
                    ELSE /\ ruta_script' = join(ruta_tema, e.valor)
                         /\ LET v == mostrar_codigo(fs, ruta_script')
                            IN  /\ llamadas' = <<Llamada("mostrar_codigo",
                                                  ruta_script', v.retorno)>>
                                /\ log' = log \o v.registros
                                /\ pc' = despues_de_mostrar(v.retorno)
                                /\ salida' = v.salida \o
                                       <<IF pc' = "confirmar"
                                         THEN "pregunta: ejecutar"
                                         ELSE "pregunta: continuar">>
                         /\ UNCHANGED <<excepcion, ruta_tema, scripts>>
           ELSE /\ salida' = <<"aviso: Script no valido">>
                /\ pc' = "scripts_listar"
                /\ llamadas' = <<>>
                /\ log' = log
                /\ UNCHANGED <<excepcion, marco_scripts>>
    /\ Len(log') <= MaxLog
    /\ UNCHANGED <<marco_submenu, entorno>>

\* Lines 179-181: the answer to the question whether to run the script.
Confirmar(linea) ==
    /\ pc = "confirmar"
    /\ pc' = "continuar"
    /\ \/ /\ afirmativa(linea)
          /\ \E exito \in BOOLEAN :
                LET e == ejecutar_codigo(os_name, ruta_script, exito)
                IN  /\ hijos' = hijos \o e.nuevos
                    /\ log' = log \o e.registros
                    /\ salida' = e.salida \o <<"pregunta: continuar">>
                    /\ llamadas' = <<Llamada("ejecutar_codigo", ruta_script,
                                             None)>>
       \/ /\ ~afirmativa(linea)
          /\ salida' = <<"pregunta: continuar">>
          /\ llamadas' = <<>>
          /\ UNCHANGED <<hijos, log>>
    /\ Len(log') <= MaxLog
    /\ UNCHANGED <<excepcion, marco_submenu, marco_scripts, os_name, fs,
                   cambios>>

\* Line 181: the line that ends the pause; the loop starts over.
Continuar(linea) ==
    /\ pc = "continuar"
    /\ pc' = "scripts_listar"
    /\ salida' = <<>>
    /\ llamadas' = <<>>
    /\ UNCHANGED <<excepcion, marco_submenu, marco_scripts, log, entorno>>

(***************************************************************************)
(* The environment: other processes change the tree, a child exits.        *)
(***************************************************************************)
control == <<pc, excepcion, marco_submenu, marco_scripts, log, salida,
             llamadas>>

Padre(p) == SubSeq(p, 1, Len(p) - 1)

Eliminar(p) ==
    /\ cambios < MaxCambios
    /\ fs[p].tipo # "ausente"
    /\ fs' = [q \in DOMAIN fs |-> IF EsPrefijo(p, q) THEN Ausente ELSE fs[q]]
    /\ cambios' = cambios + 1
    /\ UNCHANGED <<control, hijos, os_name>>

Crear(p) ==
    /\ cambios < MaxCambios
    /\ fs[p].tipo = "ausente"
    /\ Padre(p) = ruta_base \/ Nodo(fs, Padre(p)).tipo = "dir"
    /\ fs' = [fs EXCEPT ![p] = NodoNuevo(p)]
    /\ cambios' = cambios + 1
    /\ UNCHANGED <<control, hijos, os_name>>

HijoTermina(i) ==
    /\ hijos[i].estado = "corriendo"
    /\ hijos' = [hijos EXCEPT ![i].estado = "terminado"]
    /\ UNCHANGED <<control, os_name, fs, cambios>>

\* A session at the keyboard: every input() returns some line.
Next ==
    \/ MenuPrincipal /\ UNCHANGED stdin
    \/ \E linea \in LineasPrincipal :
          EleccionPrincipal(linea) /\ UNCHANGED stdin
    \/ MenuSubmenu /\ UNCHANGED stdin
    \/ \E linea \in LineasMenu : EleccionSubmenu(linea) /\ UNCHANGED stdin
    \/ MenuScripts /\ UNCHANGED stdin
    \/ \E linea \in LineasMenu : EleccionScripts(linea) /\ UNCHANGED stdin
    \/ \E linea \in LineasRespuesta : Confirmar(linea) /\ UNCHANGED stdin
    \/ \E linea \in LineasPausa : Continuar(linea) /\ UNCHANGED stdin
    \/ \E p \in RutasMudables : Eliminar(p) /\ UNCHANGED stdin
    \/ \E p \in RutasMudables : Crear(p) /\ UNCHANGED stdin
    \/ \E i \in DOMAIN hijos : HijoTermina(i) /\ UNCHANGED stdin

Spec == Init /\ [][Next]_vars

(***************************************************************************)
(* The session fed from a file or a pipe: input() returns the next line of *)
(* standard input and raises EOFError when there is none left.  No other   *)
(* process touches the tree.                                               *)
(***************************************************************************)
ArchivoDeEntrada(g) == [tty |-> FALSE, guion |-> g, leidas |-> 0]

\* The positions at which the controller is inside a call of input().
PosicionesDeInput ==
    {"principal_input", "submenu_input", "scripts_input", "confirmar",
     "continuar"}

\* input() on a file that has a line left returns that line and moves on.
HayLinea == ~stdin.tty /\ stdin.leidas < Len(stdin.guion)
input == stdin.guion[stdin.leidas + 1]
Leida == stdin' = [stdin EXCEPT !.leidas = @ + 1]

\* input() at the end of the file: EOFError, which no handler catches.
FinDeEntrada ==
    /\ ~stdin.tty
    /\ stdin.leidas = Len(stdin.guion)
    /\ pc \in PosicionesDeInput
    /\ Abortar("EOFError")
    /\ llamadas' = <<>>
    /\ UNCHANGED <<marco_submenu, marco_scripts, log, entorno, stdin>>

\* One unit (key "1"), one topic in it, one script in the topic.
ArbolGuion(a) ==
    [p \in Rutas |->
        CASE p = RutaUnidad(<<"1">>) -> Dir
          [] p = RutaClases -> Dir
          [] p = join(RutaClases, NombreA) -> a
          [] OTHER -> Ausente]

\* Unit 1, topic 1, script 1, an answer to the question, and three or four
\* more lines.
Guiones ==
    {<< <<"1">>, <<"1">>, <<"1">>, r >> \o cola :
        r \in LineasRespuesta \cup {<<"N">>, <<"n">>},
        cola \in { << <<"0">>, <<"0">>, <<"0">> >>,
                   << <<"0">>, <<"0">>, <<"0">>, <<"0">> >>,
                   << <<>>, <<"0">>, <<"0">>, <<"0">> >> }}

InitGuion ==
    /\ pc = "principal_menu"
    /\ excepcion = ""
    /\ ruta_unidad = SinRuta
    /\ subcarpetas = SinSubcarpetas
    /\ ruta_tema = SinRuta
    /\ scripts = SinScripts
    /\ ruta_script = SinRuta
    /\ log = <<>>
    /\ salida = <<>>
    /\ llamadas = <<>>
    /\ hijos = <<>>
    /\ os_name \in {"nt", "posix"}
    /\ fs \in {ArbolGuion(a) :
                a \in {Archivo(c) : c \in Contenidos}
                      \cup {ArchivoCerrado(<<112>>)}}
    /\ cambios = 0
    /\ stdin \in {ArchivoDeEntrada(g) : g \in Guiones}

\* The steps of the controller that do not end in EOFError.
ControlGuion ==
    \/ MenuPrincipal /\ UNCHANGED stdin
    \/ HayLinea /\ EleccionPrincipal(input) /\ Leida
    \/ MenuSubmenu /\ UNCHANGED stdin
    \/ HayLinea /\ EleccionSubmenu(input) /\ Leida
    \/ MenuScripts /\ UNCHANGED stdin
    \/ HayLinea /\ EleccionScripts(input) /\ Leida
    \/ HayLinea /\ Confirmar(input) /\ Leida
    \/ HayLinea /\ Continuar(input) /\ Leida

NextGuion ==
    \/ ControlGuion
    \/ FinDeEntrada
    \/ \E i \in DOMAIN hijos : HijoTermina(i) /\ UNCHANGED stdin

SpecGuion == InitGuion /\ [][NextGuion]_vars

(***************************************************************************)
(* Vocabulary of the properties.                                           *)
(***************************************************************************)
\* The warnings the program prints.
Avisos ==
    {"aviso: Opcion no valida", "aviso: ingrese un numero valido",
     "aviso: Tema no valido", "aviso: Script no valido", "aviso: Error",
     "aviso: Error al ejecutar"}

NumAvisos(s) == Cardinality({i \in DOMAIN s : s[i] \in Avisos})

\* Line l is t surrounded by blanks, and t has no blank at either end.
Recortada(l, t) ==
    /\ t = <<>> \/ (t[1] \notin Espacios /\ t[Len(t)] \notin Espacios)
    /\ \E i \in 0..Len(l) :
          /\ i + Len(t) <= Len(l)
          /\ SubSeq(l, i + 1, i + Len(t)) = t
          /\ \A j \in 1..Len(l) :
                (j <= i \/ j > i + Len(t)) => l[j] \in Espacios

(***************************************************************************)
(* C1.  The session ends only when "0" is read at the main menu: no        *)
(* failure of a directory listing ends it.                                 *)
(***************************************************************************)
C1_SoloTerminaPorSalir == pc # "abortado"

(***************************************************************************)
(* C2.  A catalog key k read (trimmed) at the main menu enters the topic   *)
(* menu of the path ruta_base/unidades[k], and entering it raises nothing, *)
(* whether or not the directory exists: the process never dies inside the  *)
(* call before the first topic prompt.                                     *)
(***************************************************************************)
C2_ClaveEntraEnTemas ==
    /\ [][\A linea \in LineasPrincipal : \A k \in DOMAIN unidades :
             (Recortada(linea, k) /\ EleccionPrincipal(linea)) =>
                 /\ pc' = "submenu_listar"
                 /\ ruta_unidad' = <<"base", unidades[k]>>]_vars
    /\ [](pc = "abortado" => subcarpetas # SinSubcarpetas)

(***************************************************************************)
(* C3.  At the topic menu and at the script menu a line that is not "0"    *)
(* and is not an integer between 1 and the length of the list shown keeps  *)
(* the controller in the same menu with the same path, calls neither       *)
(* mostrar_codigo nor ejecutar_codigo and prints exactly one warning.      *)
(***************************************************************************)
FueraDeLista(linea, lista) ==
    /\ ~Recortada(linea, <<"0">>)
    /\ \/ int(linea).error # ""
       \/ int(linea).valor < 1
       \/ int(linea).valor > Len(lista)

C3_EntradaInvalida ==
    [][\A linea \in LineasMenu :
          /\ (EleccionSubmenu(linea) /\ FueraDeLista(linea, subcarpetas)) =>
                /\ pc' = "submenu_listar"
                /\ ruta_unidad' = ruta_unidad
                /\ llamadas' = <<>>
                /\ hijos' = hijos
                /\ NumAvisos(salida') = 1
          /\ (EleccionScripts(linea) /\ FueraDeLista(linea, scripts)) =>
                /\ pc' = "scripts_listar"
                /\ ruta_tema' = ruta_tema
                /\ ruta_unidad' = ruta_unidad
                /\ llamadas' = <<>>
                /\ hijos' = hijos
                /\ NumAvisos(salida') = 1]_vars

\* A warning was printed at a menu of a non-empty list and the list is
\* about to be shown again.
C3_Testigo ==
    \/ /\ pc = "submenu_listar"
       /\ salida = <<"aviso: Tema no valido">>
       /\ Len(subcarpetas) = 2
    \/ /\ pc = "scripts_listar"
       /\ salida = <<"aviso: ingrese un numero valido">>
       /\ Len(scripts) = 2

(***************************************************************************)
(* C4.  After a script in range was chosen, the question whether to run    *)
(* it is asked if and only if mostrar_codigo returned a text, whatever the *)
(* content of the file, the empty file included.                           *)
(***************************************************************************)
C4_PreguntaSiHayTexto ==
    [][(pc = "scripts_input" /\ pc' # pc /\ llamadas' # <<>>) =>
          /\ llamadas'[1].fn = "mostrar_codigo"
          /\ pc' = "confirmar" <=> ~llamadas'[1].retorno.none]_vars

(***************************************************************************)
(* C5.  The answer to the question decides the launch: ejecutar_codigo is  *)
(* called exactly once, on the path just shown, when the answer is the     *)
(* affirmative letter in either case, and not at all otherwise.            *)
(***************************************************************************)
LanzaSoloCon(letras) ==
    \A linea \in LineasRespuesta :
        Confirmar(linea) =>
            IF linea \in letras
            THEN /\ Len(llamadas') = 1
                 /\ llamadas'[1].fn = "ejecutar_codigo"
                 /\ llamadas[1].fn = "mostrar_codigo"
                 /\ llamadas'[1].ruta = llamadas[1].ruta
            ELSE llamadas' = <<>>

\* As claimed: the affirmative letter is "Y".
C5_LanzaConY == [][LanzaSoloCon({<<"Y">>, <<"y">>})]_vars

\* As amended: the affirmative letter is "S".
C5_LanzaConS == [][LanzaSoloCon({<<"S">>, <<"s">>})]_vars

\* The launcher was called and the controller waits at the final pause.
C5_Testigo ==
    /\ pc = "continuar"
    /\ llamadas # <<>>
    /\ llamadas[1].fn = "ejecutar_codigo"

(***************************************************************************)
(* C6.  After a script in range was chosen, whether showing it failed, the *)
(* run was declined, the spawn succeeded or the spawn failed, the          *)
(* controller reads exactly one line at the final pause and only then      *)
(* lists the same topic again.                                             *)
(***************************************************************************)
C6_PausaAntesDeListar ==
    [][/\ (pc = "scripts_input" /\ pc' # pc /\ llamadas' # <<>>) =>
             /\ pc' \in {"confirmar", "continuar"}
             /\ ruta_tema' = ruta_tema
       /\ (pc = "confirmar" /\ pc' # pc) =>
             /\ pc' = "continuar"
             /\ ruta_tema' = ruta_tema
       /\ (pc = "continuar" /\ pc' # pc) =>
             /\ pc' = "scripts_listar"
             /\ ruta_tema' = ruta_tema
             /\ \E linea \in LineasPausa : Continuar(linea)
       /\ (pc' = "scripts_listar" /\ pc \in {"confirmar", "continuar"}) =>
             pc = "continuar"]_vars

\* The pause after a chosen script has been ended and the topic is about
\* to be listed again.
C6_Testigo ==
    /\ pc = "scripts_listar"
    /\ ruta_script # SinRuta
    /\ salida = <<>>
    /\ hijos # <<>>

(***************************************************************************)
(* C7.  Showing a path whose file is missing, unreadable or not UTF-8      *)
(* returns None, appends exactly one ERROR record with that path and no    *)
(* INFO record, prints one warning, and raises nothing.                    *)
(***************************************************************************)
\* The file at p cannot be read as UTF-8 text.
Ilegible(p) ==
    \/ Nodo(fs, p).tipo # "archivo"
    \/ ~Nodo(fs, p).legible
    \/ \E i \in DOMAIN Nodo(fs, p).bytes : Nodo(fs, p).bytes[i] = 255

C7_FalloAlMostrar ==
    [][(/\ pc = "scripts_input"
        /\ pc' # pc
        /\ llamadas' # <<>>
        /\ Ilegible(llamadas'[1].ruta)) =>
              /\ llamadas'[1].fn = "mostrar_codigo"
              /\ llamadas'[1].retorno = None
              /\ Len(log') = Len(log) + 1
              /\ SubSeq(log', 1, Len(log)) = log
              /\ log'[Len(log')].nivel = "ERROR"
              /\ log'[Len(log')].dato = llamadas'[1].ruta
              /\ NumAvisos(salida') = 1
              /\ pc' # "abortado"
              /\ excepcion' = ""]_vars

\* mostrar_codigo has just failed on a file that was deleted after the
\* menu listed it.
C7_Testigo ==
    /\ pc = "continuar"
    /\ llamadas # <<>>
    /\ llamadas[1].fn = "mostrar_codigo"
    /\ llamadas[1].retorno = None
    /\ Nodo(fs, llamadas[1].ruta).tipo = "ausente"

(***************************************************************************)
(* C8.  Showing a readable file of valid UTF-8 returns the text of its     *)
(* bytes and appends exactly one INFO record with the path.                *)
(***************************************************************************)
\* The text of line-ending translation, stated on positions: a LF that
\* follows a CR is dropped, and every CR becomes a LF.
RECURSIVE SaltosUniversales(_, _)
SaltosUniversales(t, i) ==
    IF i > Len(t) THEN <<>>
    ELSE (IF t[i] = 10 /\ i > 1 /\ t[i - 1] = 13 THEN <<>>
          ELSE IF t[i] = 13 THEN <<10>>
          ELSE <<t[i]>>) \o SaltosUniversales(t, i + 1)

MuestraTexto(Texto(_)) ==
    (/\ pc = "scripts_input"
         /\ pc' # pc
         /\ llamadas' # <<>>
         /\ ~Ilegible(llamadas'[1].ruta)) =>
            /\ llamadas'[1].fn = "mostrar_codigo"
            /\ llamadas'[1].retorno =
                  Str(Texto(Nodo(fs, llamadas'[1].ruta).bytes))
            /\ log' = Append(log, Registro("INFO", "Archivo visualizado",
                                           llamadas'[1].ruta))

BytesDecodificados(b) == utf8_decode(b).texto
BytesDecodificadosYSaltos(b) == SaltosUniversales(utf8_decode(b).texto, 1)

\* As claimed: the text is the decoded bytes, character for character.
C8_TextoIgualABytes == [][MuestraTexto(BytesDecodificados)]_vars

\* As amended: the text is the decoded bytes after the translation of the
\* line endings CR LF and CR to LF.
C8_TextoConSaltosTraducidos == [][MuestraTexto(BytesDecodificadosYSaltos)]_vars

\* A file with a CR LF line ending has been shown.
C8_Testigo ==
    /\ llamadas # <<>>
    /\ llamadas[1].fn = "mostrar_codigo"
    /\ llamadas[1].retorno = Str(<<241, 10>>)
    /\ Nodo(fs, llamadas[1].ruta).bytes = <<195, 177, 13, 10>>

(***************************************************************************)
(* C9.  The launcher returns while the child it started is still running,  *)
(* and from then on the controller moves on its own: the final pause and   *)
(* the next listing do not depend on the child, and no step of the         *)
(* controller touches a child.                                             *)
(***************************************************************************)
C9_NoEsperaAlHijo ==
    /\ [][/\ (pc = "confirmar" /\ pc' # pc /\ hijos' # hijos) =>
                /\ pc' = "continuar"
                /\ Len(hijos') = Len(hijos) + 1
                /\ hijos'[Len(hijos')].estado = "corriendo"
          /\ pc' # pc =>
                \A i \in DOMAIN hijos :
                    i \in DOMAIN hijos' /\ hijos'[i] = hijos[i]]_vars
    /\ [](pc = "continuar" => ENABLED Continuar(<<>>))
    /\ [](pc = "scripts_listar" => ENABLED MenuScripts)

\* The script menu is shown again while the child is still running.
C9_Testigo ==
    /\ pc = "scripts_input"
    /\ hijos # <<>>
    /\ \A i \in DOMAIN hijos : hijos[i].estado = "corriendo"

(***************************************************************************)
(* C10.  When the spawn fails, ejecutar_codigo appends exactly one ERROR   *)
(* record and no "Script ejecutado" record, prints one warning and         *)
(* returns, and the controller goes on to the final pause.                 *)
(***************************************************************************)
C10_FalloAlLanzar ==
    [][(pc = "confirmar" /\ pc' # pc /\ llamadas' # <<>> /\ hijos' = hijos) =>
              /\ llamadas'[1].fn = "ejecutar_codigo"
              /\ Len(log') = Len(log) + 1
              /\ SubSeq(log', 1, Len(log)) = log
              /\ log'[Len(log')].nivel = "ERROR"
              /\ log'[Len(log')].mensaje # "Script ejecutado"
              /\ NumAvisos(salida') = 1
              /\ pc' = "continuar"
              /\ excepcion' = ""]_vars

\* The spawn has just failed.
C10_Testigo ==
    /\ pc = "continuar"
    /\ llamadas # <<>>
    /\ llamadas[1].fn = "ejecutar_codigo"
    /\ hijos = <<>>
    /\ log[Len(log)].nivel = "ERROR"

(***************************************************************************)
(* C11.  "0" read (trimmed) at the topic menu takes the controller back to *)
(* the rendering of the main menu; the step writes no log record and       *)
(* changes nothing on disk.                                                *)
(***************************************************************************)
C11_VolverSinEfectos ==
    [][pc = "submenu_input" =>
          \A linea \in LineasMenu :
              (Recortada(linea, <<"0">>) /\ EleccionSubmenu(linea)) =>
                  /\ pc' = "principal_menu"
                  /\ log' = log
                  /\ fs' = fs
                  /\ hijos' = hijos
                  /\ NumAvisos(salida') = 0]_vars

\* Back at the main menu from the topic menu, after a script was shown.
C11_Testigo ==
    /\ pc = "principal_menu"
    /\ salida = <<>>
    /\ ruta_unidad = SinRuta
    /\ log # <<>>
    /\ log[Len(log)].mensaje = "Archivo visualizado"

(***************************************************************************)
(* C12.  The session fed exactly the given lines, on the tree with one     *)
(* unit, one topic and one script that holds text: no exception ends it,   *)
(* the launcher is never called, and as long as it has not ended some step *)
(* of the controller is possible; when it ends, it has read all the lines  *)
(* and the log holds the record of the view followed by the one record of  *)
(* the end of the session.                                                 *)
(***************************************************************************)
GuionSiete == << <<"1">>, <<"1">>, <<"1">>, <<"N">>, <<"0">>, <<"0">>, <<"0">> >>

GuionOcho == GuionSiete \o << <<"0">> >>

ScriptConTexto ==
    LET r == leer(fs, join(RutaClases, NombreA))
    IN  r.error = "" /\ r.texto # <<>>

Escenario(g) ==
    (~stdin.tty /\ stdin.guion = g /\ ScriptConTexto) =>
        /\ pc # "abortado"
        /\ hijos = <<>>
        /\ \A i \in DOMAIN llamadas : llamadas[i].fn # "ejecutar_codigo"
        /\ pc # "fin" => ENABLED ControlGuion
        /\ pc = "fin" =>
              /\ stdin.leidas = Len(g)
              /\ Len(log) = 2
              /\ log[1].nivel = "INFO"
              /\ log[1].mensaje = "Archivo visualizado"
              /\ log[1].dato = join(RutaClases, NombreA)
              /\ log[2] = Registro("INFO", "Sesion finalizada", <<>>)

\* The menus visited after each line of the eight: MAIN, TOPIC, SCRIPT, the
\* question, the pause, SCRIPT, TOPIC, MAIN, the end.
Recorrido ==
    << {"principal_menu", "principal_input"},
       {"submenu_listar", "submenu_input"},
       {"scripts_listar", "scripts_input"},
       {"confirmar"},
       {"continuar"},
       {"scripts_listar", "scripts_input"},
       {"submenu_listar", "submenu_input"},
       {"principal_menu", "principal_input"},
       {"fin"} >>

\* C12 as stated, with the seven lines "1", "1", "1", "N", "0", "0", "0".
C12_SieteLineas == Escenario(GuionSiete)

\* C12 with the eight lines "1", "1", "1", "N", "0", "0", "0", "0": the fifth
\* line is the one read by the pause after the question, and the session
\* visits the menus in the order of Recorrido.
C12_OchoLineas ==
    /\ Escenario(GuionOcho)
    /\ (~stdin.tty /\ stdin.guion = GuionOcho /\ ScriptConTexto) =>
           pc \in Recorrido[stdin.leidas + 1]

\* The session of the eight lines has ended through the option "0".
C12_Testigo ==
    /\ ~stdin.tty
    /\ stdin.guion = GuionOcho
    /\ stdin.leidas = 8
    /\ ScriptConTexto
    /\ pc = "fin"
    /\ Len(log) = 2

(***************************************************************************)
(* C13.  Every rendering of the menu of topics and of the menu of scripts  *)
(* lists the directory as it is on disk at that moment, so an entry that   *)
(* another process added or removed since the rendering before shows in    *)
(* it; an input is read only after a rendering, the list is not altered    *)
(* between the rendering and the input, and the number n typed selects the *)
(* n-th name of that list.                                                 *)
(***************************************************************************)
Conjunto(lista) == {lista[i] : i \in DOMAIN lista}

SinRepetidos(lista) == Cardinality(Conjunto(lista)) = Len(lista)

\* The names under ruta that are on disk with the given type.
EnDisco(arbol, ruta, nombres, tipo) ==
    {n \in nombres : /\ join(ruta, n) \in DOMAIN arbol
                     /\ arbol[join(ruta, n)].tipo = tipo}

\* The names of the model that end in ".py".
ConSufijoPy == {NombreA, NombreB, NombreD}

\* The line, trimmed, is the decimal numeral of n.
Teclea(linea, n) ==
    /\ n \in 1..3
    /\ Recortada(linea, << <<"1", "2", "3">>[n] >>)

C13_ListadoDelUltimoMenu ==
    [][/\ (pc = "submenu_listar" /\ pc' = "submenu_input") =>
              /\ Conjunto(subcarpetas') = EnDisco(fs, ruta_unidad, Temas, "dir")
              /\ SinRepetidos(subcarpetas')
       /\ (pc = "scripts_listar" /\ pc' = "scripts_input") =>
              /\ Conjunto(scripts') =
                     EnDisco(fs, ruta_tema, ConSufijoPy, "archivo")
              /\ SinRepetidos(scripts')
       /\ (pc' = "submenu_input" /\ pc # pc') => pc = "submenu_listar"
       /\ (pc' = "scripts_input" /\ pc # pc') => pc = "scripts_listar"
       /\ (pc = "submenu_input" /\ pc' = pc) => subcarpetas' = subcarpetas
       /\ (pc = "scripts_input" /\ pc' = pc) => scripts' = scripts
       /\ (pc = "submenu_input" /\ pc' # pc) =>
              \A n \in 1..Len(subcarpetas) : \A linea \in LineasMenu :
                  (Teclea(linea, n) /\ EleccionSubmenu(linea)) =>
                      /\ pc' = "scripts_listar"
                      /\ ruta_tema' = join(ruta_unidad, subcarpetas[n])
       /\ (pc = "scripts_input" /\ pc' # pc) =>
              \A n \in 1..Len(scripts) : \A linea \in LineasMenu :
                  (Teclea(linea, n) /\ EleccionScripts(linea)) =>
                      /\ ruta_script' = join(ruta_tema, scripts[n])
                      /\ Len(llamadas') = 1
                      /\ llamadas'[1].fn = "mostrar_codigo"
                      /\ llamadas'[1].ruta = join(ruta_tema, scripts[n])]_vars

\* The menu of scripts lists b.py, which another process created during the
\* session.
C13_Testigo ==
    /\ pc = "scripts_input"
    /\ cambios > 0
    /\ NombreB \in Conjunto(scripts)
    /\ fs[join(RutaClases, NombreB)].tipo = "archivo"

(***************************************************************************)
(* C14.  A line read at the main menu whose trimmed value is neither "0"   *)
(* nor a key of unidades prints exactly one warning, appends exactly one   *)
(* record, of level WARNING, to the log, and takes the controller back to  *)
(* the rendering of the main menu.                                         *)
(***************************************************************************)
NiSalirNiClave(linea) ==
    /\ ~Recortada(linea, <<"0">>)
    /\ \A k \in DOMAIN unidades : ~Recortada(linea, k)

C14_OpcionInvalida ==
    [][(pc = "principal_input" /\ pc' # pc) =>
          \A linea \in LineasPrincipal :
              (NiSalirNiClave(linea) /\ EleccionPrincipal(linea)) =>
                  /\ pc' = "principal_menu"
                  /\ NumAvisos(salida') = 1
                  /\ Len(salida') = 1
                  /\ Len(log') = Len(log) + 1
                  /\ SubSeq(log', 1, Len(log)) = log
                  /\ log'[Len(log')].nivel = "WARNING"
                  /\ ruta_unidad' = SinRuta
                  /\ hijos' = hijos]_vars

\* The main menu is about to be rendered again after the line "00".
C14_Testigo ==
    /\ pc = "principal_menu"
    /\ salida = <<"aviso: Opcion no valida">>
    /\ log # <<>>
    /\ log[Len(log)].nivel = "WARNING"
    /\ log[Len(log)].dato = <<"0", "0">>

(***************************************************************************)
(* C15.  The menu of scripts is entered with ruta_tema directly under the  *)
(* ruta_unidad of the menu of topics; no step made inside the menu of      *)
(* scripts (selection, view, launch, pause) changes either path; and "0"   *)
(* read at the menu of scripts, the only way out of it other than an       *)
(* exception, leads to the rendering of the menu of topics with that same  *)
(* ruta_unidad.                                                            *)
(***************************************************************************)
EnScripts == {"scripts_listar", "scripts_input", "confirmar", "continuar"}

C15_VuelveALaMismaUnidad ==
    [][/\ (pc = "submenu_input" /\ pc' \in EnScripts) =>
              /\ ruta_unidad' = ruta_unidad
              /\ Padre(ruta_tema') = ruta_unidad
       /\ (pc \in EnScripts /\ pc' \in EnScripts) =>
              /\ ruta_unidad' = ruta_unidad
              /\ ruta_tema' = ruta_tema
       /\ (pc \in EnScripts /\ pc' \notin EnScripts \cup {"abortado"}) =>
              /\ pc = "scripts_input"
              /\ pc' = "submenu_listar"
              /\ ruta_unidad' = Padre(ruta_tema)
              /\ subcarpetas' = subcarpetas
       /\ (pc = "scripts_input" /\ pc' # pc) =>
              \A linea \in LineasMenu :
                  (Recortada(linea, <<"0">>) /\ EleccionScripts(linea)) =>
                      /\ pc' = "submenu_listar"
                      /\ ruta_unidad' = ruta_unidad]_vars

\* Back at the menu of topics of unit 1 from the menu of scripts, after a
\* script was shown and launched.
C15_Testigo ==
    /\ pc = "submenu_listar"
    /\ salida = <<>>
    /\ subcarpetas # SinSubcarpetas
    /\ ruta_unidad = RutaUnidad(<<"1">>)
    /\ ruta_tema = SinRuta
    /\ hijos # <<>>

(***************************************************************************)
(* C16.  The list of scripts of a rendering holds, once each, exactly the  *)
(* names under ruta_tema that are regular files on disk and end in ".py";  *)
(* the directory d.py and the file n.pyc are not in it, and every call of  *)
(* mostrar_codigo or ejecutar_codigo is for a name of the list, which ends *)
(* in ".py".                                                               *)
(***************************************************************************)
C16_SoloArchivosPy ==
    [][/\ (pc = "scripts_listar" /\ pc' = "scripts_input") =>
              /\ \A n \in Entradas :
                    n \in Conjunto(scripts') <=>
                        /\ n \in ConSufijoPy
                        /\ fs[join(ruta_tema, n)].tipo = "archivo"
              /\ Conjunto(scripts') \subseteq Entradas
              /\ SinRepetidos(scripts')
              /\ fs[join(ruta_tema, NombreD)].tipo = "dir" =>
                     NombreD \notin Conjunto(scripts')
              /\ NombreN \notin Conjunto(scripts')
       /\ (llamadas' # <<>> /\ pc' # pc) =>
              \A i \in DOMAIN llamadas' :
                  \E n \in Conjunto(scripts) \cap ConSufijoPy :
                      /\ llamadas'[i].ruta = join(ruta_tema, n)
                      /\ n \notin {NombreD, NombreN}]_vars

\* A rendering that lists a.py alone while the directory d.py and the file
\* n.pyc are in the topic.
C16_Testigo ==
    /\ pc = "scripts_input"
    /\ scripts = <<NombreA>>
    /\ fs[join(ruta_tema, NombreA)].tipo = "archivo"
    /\ fs[join(ruta_tema, NombreD)].tipo = "dir"
    /\ fs[join(ruta_tema, NombreN)].tipo = "archivo"

(***************************************************************************)
(* C17.  ejecutar_codigo is called, and a child is spawned, only by the    *)
(* step that reads the answer to the question of the menu of scripts: the  *)
(* step before it of the controller called mostrar_codigo on the same path *)
(* and got text, the answer read is "S" or "s", the step makes exactly one *)
(* call, and it leads to the pause, from which the next call of            *)
(* ejecutar_codigo needs a new selection.                                  *)
(***************************************************************************)
Lanza(ls) == \E i \in DOMAIN ls : ls[i].fn = "ejecutar_codigo"

C17_LanzaTrasMostrarYConfirmar ==
    [][/\ (pc' # pc /\ Lanza(llamadas')) =>
              /\ pc = "confirmar"
              /\ pc' = "continuar"
              /\ Len(llamadas) = 1
              /\ llamadas[1].fn = "mostrar_codigo"
              /\ ~llamadas[1].retorno.none
              /\ llamadas[1].retorno.texto # <<>>
              /\ Len(llamadas') = 1
              /\ llamadas'[1].ruta = llamadas[1].ruta
              /\ llamadas'[1].ruta = ruta_script
              /\ \E linea \in {<<"S">>, <<"s">>} : Confirmar(linea)
              /\ \A linea \in LineasRespuesta \ {<<"S">>, <<"s">>} :
                    ~Confirmar(linea)
       /\ (Len(hijos') > Len(hijos)) =>
              /\ pc = "confirmar"
              /\ Lanza(llamadas')
              /\ Len(hijos') = Len(hijos) + 1
       /\ (pc = "continuar" /\ pc' # pc) =>
              /\ pc' = "scripts_listar"
              /\ llamadas' = <<>>
       /\ (pc = "scripts_listar" /\ pc' # pc) => llamadas' = <<>>]_vars

\* At the pause after the launch of a.py, which was shown and whose child
\* is running.
C17_Testigo ==
    /\ pc = "continuar"
    /\ llamadas = <<Llamada("ejecutar_codigo", join(RutaClases, NombreA), None)>>
    /\ Len(hijos) = 1
    /\ hijos[1].estado = "corriendo"
    /\ Len(log) = 2
    /\ log[1].mensaje = "Archivo visualizado"
    /\ log[2].mensaje = "Script ejecutado"

(***************************************************************************)
(* C18.  The controller is at the main menu, in the menu of topics called  *)
(* from it, or in the menu of scripts called from that one.  At the main   *)
(* menu no unit and no topic is bound; in the menu of topics ruta_unidad   *)
(* is ruta_base joined with the name unidades gives to one of its keys and *)
(* no topic is bound; in the menu of scripts ruta_unidad is such a path    *)
(* too and ruta_tema is ruta_unidad joined with a name of subcarpetas, the *)
(* list from which the topic was selected.  ruta_base and unidades are     *)
(* assigned by __init__ alone.                                             *)
(***************************************************************************)
EnPrincipal == {"principal_menu", "principal_input", "fin"}

EnSubmenu == {"submenu_listar", "submenu_input"}

EsRutaDeUnidad(p) ==
    \E k \in {<<"1">>, <<"2">>, <<"3">>, <<"4">>} :
        p = <<"base">> \o <<unidades[k]>>

C18_Anidamiento ==
    /\ pc \in EnPrincipal \cup EnSubmenu \cup EnScripts \cup {"abortado"}
    /\ pc \in EnPrincipal =>
          /\ ruta_unidad = SinRuta
          /\ ruta_tema = SinRuta
    /\ pc \in EnSubmenu =>
          /\ EsRutaDeUnidad(ruta_unidad)
          /\ ruta_tema = SinRuta
    /\ pc \in EnScripts =>
          /\ EsRutaDeUnidad(ruta_unidad)
          /\ \E n \in Conjunto(subcarpetas) :
                ruta_tema = ruta_unidad \o <<n>>
          /\ ruta_script # SinRuta =>
                \E f \in Entradas : ruta_script = ruta_tema \o <<f>>

\* In the menu of scripts of the topic Clases, selected from a list of two
\* topics, after Clases was deleted on disk.
C18_Testigo ==
    /\ pc = "scripts_input"
    /\ ruta_unidad = RutaUnidad(<<"1">>)
    /\ ruta_tema = RutaClases
    /\ Len(subcarpetas) = 2
    /\ fs[RutaClases].tipo = "ausente"

====
